---------------------------- MODULE Spec2Model ----------------------------
(***************************************************************************)
(* Model of the image -> PDF batch pipeline (main.py) and of its two       *)
(* renaming utilities (rename_pdfs.py, reajuste_nombre.py).                *)
(*                                                                         *)
(* File names are sequences of one-character strings, so that re.sub,      *)
(* str.strip, str.lower, str.endswith, os.path.splitext and the f-string   *)
(* formatting of the collision counter are computed character by           *)
(* character.  A directory is a set of files; a file is a record with its  *)
(* name (unique inside the directory) and what the pipeline needs to know  *)
(* of its content.                                                         *)
(***************************************************************************)
EXTENDS Integers, Sequences, FiniteSets, TLC

VARIABLES
    pc,             \* position of the running program
    arg, res,       \* get_modified_basename: argument and returned value
    folder,         \* the single folder of get_unique_filename / rename utilities
    todo,           \* names of the os.listdir snapshot not yet visited
    issued,         \* names returned so far by get_unique_filename
    clobbered,      \* a name was returned / renamed onto while it existed
    before,         \* the folder at the start of the current run
    input_folder,   \* producto_inicio
    temp_transform, \* first temporary directory
    temp_pdf,       \* second temporary directory
    final_pdf,      \* producto_final/pdf_corregidos
    stage_log,      \* the stages started, each with the directories it was given
    raised,         \* what raised out of main ("none" while nothing did)
    logged,         \* number of per-file failures printed and skipped
    out_a, out_b,   \* output folders of two synthesis runs over the same input
    reader, writer, \* process_pdf: pages still to read, pages written
    passes          \* how many times the document went through process_pdf

vNorm   == <<arg, res>>
vFolder == <<folder, todo, issued, clobbered, before>>
vPipe   == <<input_folder, temp_transform, temp_pdf, final_pdf, stage_log, raised, logged>>
vSynth  == <<out_a, out_b>>
vGeom   == <<reader, writer, passes>>
vars    == <<pc, vNorm, vFolder, vPipe, vSynth, vGeom>>

\* a directory: whether it exists, and its files when it does
NoDir == [exists |-> FALSE, files |-> {}]

EmptyDir == [exists |-> TRUE, files |-> {}]

IdleNorm   == arg = <<>> /\ res = <<>>
IdleFolder == folder = {} /\ todo = {} /\ issued = <<>> /\ clobbered = FALSE /\ before = {}
IdlePipe   == /\ input_folder = NoDir /\ temp_transform = NoDir /\ temp_pdf = NoDir
              /\ final_pdf = NoDir /\ stage_log = <<>> /\ raised = "none" /\ logged = 0
IdleSynth  == out_a = {} /\ out_b = {}
IdleGeom   == reader = <<>> /\ writer = <<>> /\ passes = 0

(***************************************************************************)
(* Characters and strings                                                  *)
(***************************************************************************)
Digits == {"0", "1", "2", "3", "4", "5", "6", "7", "8", "9"}

DigitChars == <<"0", "1", "2", "3", "4", "5", "6", "7", "8", "9">>

Whitespace == {" ", "\t", "\n", "\r"}

UpperChars == <<"A", "B", "C", "D", "E", "F", "G", "H", "I", "J", "K", "L", "M",
                "N", "O", "P", "Q", "R", "S", "T", "U", "V", "W", "X", "Y", "Z">>

LowerChars == <<"a", "b", "c", "d", "e", "f", "g", "h", "i", "j", "k", "l", "m",
                "n", "o", "p", "q", "r", "s", "t", "u", "v", "w", "x", "y", "z">>

\* str.lower() of one character
lower_char(c) ==
    IF \E i \in 1..26 : UpperChars[i] = c
    THEN LowerChars[CHOOSE i \in 1..26 : UpperChars[i] = c]
    ELSE c

\* str.lower()
lower(s) == [i \in 1..Len(s) |-> lower_char(s[i])]

\* str.endswith(suffix)
endswith(s, suffix) ==
    /\ Len(suffix) <= Len(s)
    /\ SubSeq(s, Len(s) - Len(suffix) + 1, Len(s)) = suffix

\* str.endswith((suffix, ...))
endswith_any(s, suffixes) == \E x \in suffixes : endswith(s, x)

\* str.lstrip()
RECURSIVE lstrip(_)
lstrip(s) == IF s # <<>> /\ Head(s) \in Whitespace THEN lstrip(Tail(s)) ELSE s

\* str.rstrip()
RECURSIVE rstrip(_)
rstrip(s) ==
    IF s # <<>> /\ s[Len(s)] \in Whitespace THEN rstrip(SubSeq(s, 1, Len(s) - 1)) ELSE s

\* str.strip()
strip(s) == rstrip(lstrip(s))

\* str(n) for n >= 0, as the f-string formats the counter
RECURSIVE str_int(_)
str_int(n) ==
    IF n < 10 THEN <<DigitChars[n + 1]>>
    ELSE str_int(n \div 10) \o <<DigitChars[(n % 10) + 1]>>

\* the substring test `needle in s`
Contains(s, needle) ==
    \E i \in 1..(Len(s) + 1) :
        /\ i + Len(needle) - 1 <= Len(s)
        /\ SubSeq(s, i, i + Len(needle) - 1) = needle

(***************************************************************************)
(* The multiplicity marker  -X<d>_waifu2x_noise3_scale4x                   *)
(***************************************************************************)
\* the literal text that follows the digit in the pattern
pattern_tail ==
    <<"_", "w", "a", "i", "f", "u", "2", "x", "_", "n", "o", "i", "s", "e", "3",
      "_", "s", "c", "a", "l", "e", "4", "x">>

\* number of characters one match of the pattern consumes
pattern_len == 3 + Len(pattern_tail)

\* the pattern r"-X(\d)_waifu2x_noise3_scale4x" matches s at position i
match_at(s, i) ==
    /\ i >= 1
    /\ i + pattern_len - 1 <= Len(s)
    /\ s[i] = "-"
    /\ s[i + 1] = "X"
    /\ s[i + 2] \in Digits
    /\ SubSeq(s, i + 3, i + pattern_len - 1) = pattern_tail

\* the replacement template r" (\1 COPIAS)" of main.py, expanded for group 1 = d
repl_paren(d) == <<" ", "(", d, " ", "C", "O", "P", "I", "A", "S", ")">>

\* the replacement template r" \1 COPIAS" of rename_pdfs.py
repl_plain(d) == <<" ", d, " ", "C", "O", "P", "I", "A", "S">>

\* re.sub(pattern, repl, s): leftmost non-overlapping matches, scanned from i
RECURSIVE re_sub(_, _, _)
re_sub(paren, s, i) ==
    IF i > Len(s) THEN <<>>
    ELSE IF match_at(s, i)
         THEN (IF paren THEN repl_paren(s[i + 2]) ELSE repl_plain(s[i + 2]))
              \o re_sub(paren, s, i + pattern_len)
         ELSE <<s[i]>> \o re_sub(paren, s, i + 1)

\* a variant that writes the unparenthesized template of the other utility
get_modified_basename_plain(base_name) == strip(re_sub(FALSE, base_name, 1))

\* main.py get_modified_basename
get_modified_basename(base_name) == strip(re_sub(TRUE, base_name, 1))

\* rename_pdfs.py get_modified_basename
rename_get_modified_basename(base_name) == strip(re_sub(FALSE, base_name, 1))

\* some occurrence of the marker is left in s
HasMarker(s) == \E i \in 1..Len(s) : match_at(s, i)

(***************************************************************************)
(* os.path.splitext and os.path.exists on a directory                      *)
(***************************************************************************)
\* index of the last "." of p, 0 when there is none
rfind_dot(p) ==
    IF \E i \in 1..Len(p) : p[i] = "."
    THEN CHOOSE i \in 1..Len(p) : p[i] = "." /\ \A j \in (i + 1)..Len(p) : p[j] # "."
    ELSE 0

\* os.path.splitext(p) for a name without directory separators: the extension
\* starts at the last dot unless only dots precede it
splitext(p) ==
    LET d == rfind_dot(p) IN
    IF d > 0 /\ \E k \in 1..(d - 1) : p[k] # "."
    THEN <<SubSeq(p, 1, d - 1), SubSeq(p, d, Len(p))>>
    ELSE <<p, <<>>>>

\* os.path.exists(os.path.join(folder, filename)), folder given by its names
exists(names, filename) == filename \in names

\* f"{base_name} ({counter}){extension}"
numbered(base_name, counter, extension) ==
    base_name \o <<" ", "(">> \o str_int(counter) \o <<")">> \o extension

\* the while loop of get_unique_filename, entered with the current candidate
RECURSIVE probe(_, _, _, _, _)
probe(names, base_name, extension, filename, counter) ==
    IF exists(names, filename)
    THEN probe(names, base_name, extension,
               numbered(base_name, counter, extension), counter + 1)
    ELSE filename

\* a variant that tries the counter once instead of looping
get_unique_filename_once(names, base_name, extension) ==
    IF exists(names, base_name \o extension)
    THEN numbered(base_name, 1, extension)
    ELSE base_name \o extension

\* get_unique_filename (main.py and rename_pdfs.py are the same code)
get_unique_filename(names, base_name, extension) ==
    probe(names, base_name, extension, base_name \o extension, 1)

(***************************************************************************)
(* Building the bounded sets of names the checks draw their inputs from    *)
(***************************************************************************)
\* all concatenations of at most n pieces
RECURSIVE Concats(_, _)
Concats(pieces, n) ==
    IF n = 0 THEN {<<>>}
    ELSE LET shorter == Concats(pieces, n - 1)
         IN shorter \union {p \o s : p \in pieces, s \in shorter}

Marker(d) == <<"-", "X", d>> \o pattern_tail

ext_pdf == <<".", "p", "d", "f">>
ext_PDF == <<".", "P", "D", "F">>
ext_png == <<".", "p", "n", "g">>
ext_jpg == <<".", "j", "p", "g">>
ext_JPG == <<".", "J", "P", "G">>
ext_jpeg == <<".", "j", "p", "e", "g">>
ext_webp == <<".", "w", "e", "b", "p">>
ext_txt == <<".", "t", "x", "t">>

(***************************************************************************)
(* SpecNormalizer: get_modified_basename as a pure function                *)
(***************************************************************************)
MaxPieces == 3

BasePieces ==
    { <<"a">>, <<" ">>, <<"\t">>, Marker("1"), <<"-", "X", "7">>, pattern_tail }

BaseNames == Concats(BasePieces, MaxPieces)

InitNormalizer ==
    /\ pc = "start"
    /\ arg \in BaseNames
    /\ res = <<>>
    /\ IdleFolder /\ IdlePipe /\ IdleSynth /\ IdleGeom

\* main.py: modified_base = get_modified_basename(base_original)
CallMainNormalizer ==
    /\ pc = "start"
    /\ pc' = "called_main"
    /\ res' = get_modified_basename(arg)
    /\ UNCHANGED <<arg, vFolder, vPipe, vSynth, vGeom>>

\* rename_pdfs.py: new_base = get_modified_basename(base)
CallRenameNormalizer ==
    /\ pc = "start"
    /\ pc' = "called_rename"
    /\ res' = rename_get_modified_basename(arg)
    /\ UNCHANGED <<arg, vFolder, vPipe, vSynth, vGeom>>

NextNormalizer == CallMainNormalizer \/ CallRenameNormalizer

SpecNormalizer == InitNormalizer /\ [][NextNormalizer]_vars

NormalizerCalled == pc \in {"called_main", "called_rename"}

\* C2: for a base name without any occurrence of the marker, both variants
\* of get_modified_basename return exactly their input
C2_IdentityWithoutMarker ==
    (NormalizerCalled /\ ~HasMarker(arg)) => res = arg

(***************************************************************************)
(* SpecAllocator: get_unique_filename called repeatedly on one folder,     *)
(* each returned name being created before the next call                   *)
(***************************************************************************)
MaxCounter == 10

MaxCalls == 3

AllocBases == { <<"a">>, <<"a", " ", "(", "1", ")">> }

AllocExts == { ext_pdf, <<>> }

\* the names a call with (base, ext) can run into
AllocCandidates(base, ext) ==
    {base \o ext, <<"b">> \o ext}
        \union {numbered(base, k, ext) : k \in 1..MaxCounter}

InitAllocator ==
    /\ pc = "allocator"
    /\ \E base \in AllocBases, ext \in AllocExts :
           /\ arg = <<base, ext>>
           /\ folder \in SUBSET AllocCandidates(base, ext)
    /\ before = folder
    /\ todo = {}
    /\ issued = <<>>
    /\ clobbered = FALSE
    /\ res = <<>>
    /\ IdlePipe /\ IdleSynth /\ IdleGeom

\* unique = get_unique_filename(folder, base, ext); the caller then creates it
AllocateAndCreate ==
    /\ pc = "allocator"
    /\ Len(issued) < MaxCalls
    /\ LET filename == get_unique_filename(folder, arg[1], arg[2]) IN
           /\ res' = filename
           /\ issued' = Append(issued, filename)
           /\ clobbered' = (clobbered \/ exists(folder, filename))
           /\ folder' = folder \union {filename}
    /\ UNCHANGED <<pc, arg, todo, before, vPipe, vSynth, vGeom>>

NextAllocator == AllocateAndCreate

SpecAllocator == InitAllocator /\ [][NextAllocator]_vars

\* C1: get_unique_filename never returns a name present in the folder, and N
\* calls in a row, each result created before the next call, return N
\* pairwise distinct names none of which is a file that existed before
C1_UniqueNames ==
    pc = "allocator" =>
        /\ ~clobbered
        /\ \A i, j \in 1..Len(issued) : i # j => issued[i] # issued[j]
        /\ \A i \in 1..Len(issued) : issued[i] \notin before
        /\ \A i \in 1..Len(issued) : issued[i] \in folder

\* C1 witness: two calls were made on a folder where the plain name and the
\* first numbered name were both taken
C1_Witness ==
    /\ pc = "allocator"
    /\ Len(issued) >= 2
    /\ (arg[1] \o arg[2]) \in before
    /\ numbered(arg[1], 1, arg[2]) \in before
    /\ issued[1] # issued[2]

(***************************************************************************)
(* SpecRename: rename_pdfs.py, rename_pdfs run twice over one folder       *)
(***************************************************************************)
MaxFiles == 3

\* the subsets of S with at most n elements
Upto(S, n) == {F \in SUBSET S : Cardinality(F) <= n}

COPIAS == <<" ", "C", "O", "P", "I", "A", "S">>

RenameUniverse ==
    { <<"a">> \o Marker("1") \o ext_pdf,
      <<"a", " ", "1">> \o COPIAS \o ext_pdf,
      <<"a", " ", "1">> \o COPIAS \o <<" ", "(", "1", ")">> \o ext_pdf,
      <<" ", "a">> \o ext_pdf,
      <<"a">> \o ext_pdf,
      <<"a">> \o Marker("1") \o Marker("2") \o ext_PDF,
      <<"a">> \o Marker("1") \o ext_txt,
      Marker("1") \o ext_pdf,
      <<" ">> \o ext_pdf,
      ext_pdf }

InitRename ==
    /\ pc = "rename_listdir_1"
    /\ folder \in Upto(RenameUniverse, MaxFiles)
    /\ arg = folder
    /\ before = folder
    /\ todo = {}
    /\ issued = <<>>
    /\ clobbered = FALSE
    /\ res = <<>>
    /\ IdlePipe /\ IdleSynth /\ IdleGeom

\* for file in os.listdir(input_folder): the listing is taken once per run
RenameListdir ==
    /\ pc \in {"rename_listdir_1", "rename_listdir_2"}
    /\ pc' = IF pc = "rename_listdir_1" THEN "rename_loop_1" ELSE "rename_loop_2"
    /\ todo' = folder
    /\ before' = folder
    /\ issued' = <<>>
    /\ UNCHANGED <<arg, res, folder, clobbered, vPipe, vSynth, vGeom>>

\* what one iteration of the loop of rename_pdfs does to the folder for `file`:
\* <<the folder afterwards, the new name or <<>> when nothing is renamed>>
rename_one(names, file) ==
    IF endswith(lower(file), ext_pdf)
    THEN LET base == splitext(file)[1]
             ext == splitext(file)[2]
             new_base == rename_get_modified_basename(base)
         IN IF new_base # base
            THEN LET new_filename == get_unique_filename(names, new_base, ext)
                 IN <<(names \ {file}) \union {new_filename}, new_filename>>
            ELSE <<names, <<>>>>
    ELSE <<names, <<>>>>

\* one iteration of the loop, the listing order being the file system's
RenameStep ==
    /\ pc \in {"rename_loop_1", "rename_loop_2"}
    /\ \E file \in todo :
           LET r == rename_one(folder, file) IN
               /\ folder' = r[1]
               /\ issued' = IF r[2] # <<>> THEN Append(issued, <<file, r[2]>>) ELSE issued
               /\ clobbered' = (clobbered \/ (r[2] # <<>> /\ exists(folder, r[2])))
               /\ todo' = todo \ {file}
    /\ UNCHANGED <<pc, arg, res, before, vPipe, vSynth, vGeom>>

\* the loop is over: rename_pdfs returns
RenameReturn ==
    /\ pc \in {"rename_loop_1", "rename_loop_2"}
    /\ todo = {}
    /\ pc' = IF pc = "rename_loop_1" THEN "rename_listdir_2" ELSE "rename_done"
    /\ res' = IF pc = "rename_loop_1" THEN issued ELSE res
    /\ UNCHANGED <<arg, vFolder, vPipe, vSynth, vGeom>>

NextRename == RenameListdir \/ RenameStep \/ RenameReturn

SpecRename == InitRename /\ [][NextRename]_vars

\* the text "d COPIAS" for a digit d
PlainCopias(d) == <<d>> \o COPIAS

\* C8: rename_pdfs is idempotent on the folder: after one run no PDF keeps a
\* marker in its base name, every renamed file carries "d COPIAS" (not in
\* parentheses) for each digit d its marker had, no file is lost, and a
\* second run renames nothing and leaves the set of names unchanged
C8_RenameIdempotent ==
    /\ (pc \in {"rename_listdir_2", "rename_loop_2", "rename_done"}) =>
           /\ \A file \in folder :
                  endswith(lower(file), ext_pdf) => ~HasMarker(splitext(file)[1])
           /\ \A k \in 1..Len(res) :
                  LET old == splitext(res[k][1])[1] IN
                  \A i \in 1..Len(old) :
                      match_at(old, i) =>
                          /\ Contains(res[k][2], PlainCopias(old[i + 2]))
                          /\ ~Contains(res[k][2], <<"(">> \o PlainCopias(old[i + 2]))
           /\ \A file \in arg :
                  (endswith(lower(file), ext_pdf) /\ HasMarker(splitext(file)[1])) =>
                      \E k \in 1..Len(res) : res[k][1] = file
           /\ Cardinality(folder) = Cardinality(arg)
           /\ ~clobbered
    /\ (pc \in {"rename_loop_2", "rename_done"}) =>
           /\ issued = <<>>
           /\ folder = before

(***************************************************************************)
(* SpecRewrap: reajuste_nombre.py, rename_files                            *)
(***************************************************************************)
\* s[j..] is what r"(\.[^.]+)?$" accepts: nothing, an extension without a
\* further dot, or the final newline "$" tolerates
tail_accepted(s, j) ==
    LET r == SubSeq(s, j, Len(s)) IN
    \/ r = <<>>
    \/ r = <<"\n">>
    \/ /\ Len(r) >= 2
       /\ r[1] = "."
       /\ \A k \in 2..Len(r) : r[k] # "."

\* r"(\d+ COPIAS)(\.[^.]+)?$" matches s from position i, the digits ending at e
rewrap_match(s, i, e) ==
    /\ 1 <= i /\ i <= e /\ e + Len(COPIAS) <= Len(s)
    /\ \A k \in i..e : s[k] \in Digits
    /\ SubSeq(s, e + 1, e + Len(COPIAS)) = COPIAS
    /\ tail_accepted(s, e + Len(COPIAS) + 1)

\* pattern.search(filename): the start of the leftmost match, 0 when none
rewrap_search(s) ==
    LET starts == {i \in 1..Len(s) : \E e \in i..Len(s) : rewrap_match(s, i, e)}
    IN IF starts = {} THEN 0 ELSE CHOOSE i \in starts : \A k \in starts : i <= k

\* pattern.sub(r'(\1)\2', filename) when the pattern matches from i
rewrap_sub(s, i) ==
    LET e == CHOOSE x \in i..Len(s) : rewrap_match(s, i, x)
        g1_end == e + Len(COPIAS)
    IN SubSeq(s, 1, i - 1) \o <<"(">> \o SubSeq(s, i, g1_end) \o <<")">>
           \o SubSeq(s, g1_end + 1, Len(s))

RewrapUniverse ==
    { <<"a", " ", "1">> \o COPIAS \o ext_pdf,
      <<"a", " ", "(", "1">> \o COPIAS \o <<")">> \o ext_pdf,
      <<"a", " ", "1", "2">> \o COPIAS,
      <<"a", " ", "(", "1", "2">> \o COPIAS \o <<")">>,
      <<"b">> \o ext_pdf,
      <<"a", " ", "1">> \o COPIAS \o <<".", "t", "a", "r", ".", "g", "z">>,
      <<"a", " ", "1">> \o COPIAS \o <<" ", "(", "1", ")">> \o ext_pdf }

InitRewrap ==
    /\ pc = "rewrap_start"
    /\ folder \in Upto(RewrapUniverse, MaxFiles)
    /\ before = folder
    /\ arg \in BOOLEAN          \* os.path.exists(folder_path)
    /\ (~arg => folder = {})
    /\ todo = {}
    /\ issued = <<>>
    /\ clobbered = FALSE
    /\ res = <<>>
    /\ IdlePipe /\ IdleSynth /\ IdleGeom

\* the existence test of the folder, then the directory listing
RewrapStart ==
    /\ pc = "rewrap_start"
    /\ IF ~arg
       THEN pc' = "rewrap_done" /\ todo' = todo
       ELSE pc' = "rewrap_loop" /\ todo' = folder
    /\ UNCHANGED <<arg, res, folder, issued, clobbered, before, vPipe, vSynth, vGeom>>

\* one iteration of the loop; os.rename replaces an existing destination
RewrapStep ==
    /\ pc = "rewrap_loop"
    /\ \E filename \in todo :
           LET i == rewrap_search(filename) IN
               /\ todo' = todo \ {filename}
               /\ IF i # 0
                  THEN LET new_name == rewrap_sub(filename, i) IN
                           /\ folder' = (folder \ {filename}) \union {new_name}
                           /\ issued' = Append(issued, <<filename, new_name>>)
                           /\ clobbered' = (clobbered \/ exists(folder, new_name))
                  ELSE UNCHANGED <<folder, issued, clobbered>>
    /\ UNCHANGED <<pc, arg, res, before, vPipe, vSynth, vGeom>>

\* the loop is over
RewrapReturn ==
    /\ pc = "rewrap_loop"
    /\ todo = {}
    /\ pc' = "rewrap_done"
    /\ UNCHANGED <<arg, res, vFolder, vPipe, vSynth, vGeom>>

NextRewrap == RewrapStart \/ RewrapStep \/ RewrapReturn

SpecRewrap == InitRewrap /\ [][NextRewrap]_vars

\* C10: rename_files never destroys a file: after a run the folder holds as
\* many files as before, no file was renamed onto an existing name, and the
\* names already in parenthesized form are still there
C10_RewrapKeepsFiles ==
    (pc = "rewrap_done" /\ arg) =>
        /\ Cardinality(folder) = Cardinality(before)
        /\ ~clobbered
        /\ \A f \in before : Contains(f, <<"(">>) /\ Contains(f, COPIAS \o <<")">>) => f \in folder

(***************************************************************************)
(* SpecPipeline: main.py, main() with its three stages                     *)
(*                                                                         *)
(* A file is [name, src, ok]: src is the name of the input file its        *)
(* content comes from (<<>> for a file that was there before the run), ok  *)
(* tells whether its content decodes.                                      *)
(***************************************************************************)
MaxInputs == 3

names_of(files) == {f.name : f \in files}

file_named(files, n) == CHOOSE f \in files : f.name = n

\* open(path, "wb") and write: a file of that name is replaced
write_file(files, f) == {g \in files : g.name # f.name} \union {f}

PipelineUniverse ==
    { <<"a">> \o ext_webp,
      <<"a">> \o ext_jpg,
      <<"a">> \o ext_png,
      <<"a">> \o Marker("1") \o ext_png,
      <<"a">> \o Marker("1") \o ext_JPG,
      Marker("2") \o Marker("1") \o ext_webp,
      <<" ", "a">> \o ext_jpeg,
      <<"n">> \o ext_txt }

\* the directories an input folder can be: files of the universe, each
\* decodable or corrupt
InputFolders ==
    { [exists |-> TRUE,
       files |-> {[name |-> n, src |-> n, ok |-> (n \notin bad)] : n \in ns}] :
          ns \in Upto(PipelineUniverse, MaxInputs), bad \in SUBSET PipelineUniverse }

StaleFinal ==
    [exists |-> TRUE,
     files |-> {[name |-> <<"a">> \o ext_pdf, src |-> <<>>, ok |-> TRUE]}]

InitPipeline ==
    /\ pc = "main_start"
    /\ input_folder \in {NoDir} \union InputFolders
    /\ final_pdf \in {NoDir, StaleFinal}
    /\ temp_transform = NoDir
    /\ temp_pdf = NoDir
    /\ stage_log = <<>>
    /\ raised = "none"
    /\ logged = 0
    /\ todo = {}
    /\ IdleNorm
    /\ folder = {} /\ issued = <<>> /\ clobbered = FALSE /\ before = {}
    /\ IdleSynth /\ IdleGeom

\* a variant of leaving the `with` blocks that removes the temporary
\* directory only when the body returned
exit_with_no_finally(dir, exc) == IF exc THEN dir ELSE NoDir

\* TemporaryDirectory.__exit__: the directory is removed whether the body
\* returned or raised
exit_with(dir, exc) == NoDir

\* an exception leaves main through both `with` blocks
Propagate(what) ==
    /\ pc' = "raised"
    /\ raised' = what
    /\ temp_pdf' = exit_with(temp_pdf, TRUE)
    /\ temp_transform' = exit_with(temp_transform, TRUE)
    /\ todo' = {}

\* os.makedirs(final_pdf_folder, exist_ok=True) and the two
\* tempfile.TemporaryDirectory() of main
MainStart ==
    /\ pc = "main_start"
    /\ pc' = "p1_start"
    /\ final_pdf' = IF final_pdf.exists THEN final_pdf ELSE EmptyDir
    /\ temp_transform' = EmptyDir
    /\ temp_pdf' = EmptyDir
    /\ UNCHANGED <<input_folder, stage_log, raised, logged, todo, vNorm,
                   folder, issued, clobbered, before, vSynth, vGeom>>

\* process_images: the output folder is made when missing, the input is listed
P1Start ==
    /\ pc = "p1_start"
    /\ stage_log' = Append(stage_log, <<"process_images", "producto_inicio", "temp_transform">>)
    /\ IF input_folder.exists
       THEN /\ pc' = "p1_loop"
            /\ todo' = names_of(input_folder.files)
            /\ UNCHANGED <<raised, temp_transform, temp_pdf>>
       ELSE Propagate("listdir")
    /\ UNCHANGED <<input_folder, final_pdf, logged, vNorm,
                   folder, issued, clobbered, before, vSynth, vGeom>>

RasterExts == {ext_jpg, ext_jpeg, ext_png}

\* the name process_images writes `filename` under, <<>> when it skips it
p1_output_name(filename) ==
    LET base == splitext(filename)[1]
        ext == lower(splitext(filename)[2])
    IN IF ext = ext_webp THEN base \o ext_jpg
       ELSE IF ext \in RasterExts THEN filename
       ELSE <<>>

SaveOutcomes == {"saved", "error", "error_partial"}

\* one iteration of the loop of process_images; Image.open raises on a
\* corrupt file, save may raise (possibly leaving a truncated file), and
\* every exception is caught and printed
P1Step ==
    /\ pc = "p1_loop"
    /\ \E filename \in todo, outcome \in SaveOutcomes :
           LET f == file_named(input_folder.files, filename)
               out == p1_output_name(filename)
           IN /\ todo' = todo \ {filename}
              /\ IF out = <<>>
                 THEN UNCHANGED <<temp_transform, logged>>
                 ELSE IF ~f.ok
                 THEN logged' = logged + 1 /\ UNCHANGED temp_transform
                 ELSE IF outcome = "saved"
                 THEN /\ temp_transform' =
                            [temp_transform EXCEPT !.files =
                                write_file(@, [name |-> out, src |-> f.src, ok |-> TRUE])]
                      /\ UNCHANGED logged
                 ELSE IF outcome = "error_partial"
                 THEN /\ temp_transform' =
                            [temp_transform EXCEPT !.files =
                                write_file(@, [name |-> out, src |-> f.src, ok |-> FALSE])]
                      /\ logged' = logged + 1
                 ELSE logged' = logged + 1 /\ UNCHANGED temp_transform
    /\ UNCHANGED <<pc, input_folder, temp_pdf, final_pdf, stage_log, raised, vNorm,
                   folder, issued, clobbered, before, vSynth, vGeom>>

\* process_images returns
P1Return ==
    /\ pc = "p1_loop"
    /\ todo = {}
    /\ pc' = "p2_start"
    /\ UNCHANGED <<todo, vPipe, vNorm, folder, issued, clobbered, before, vSynth, vGeom>>

\* convert_images_to_pdf up to its loop: the model weights are loaded
\* (readModel raises when the file is missing), then the input is listed
P2Start ==
    /\ pc = "p2_start"
    /\ stage_log' = Append(stage_log, <<"convert_images_to_pdf", "temp_transform", "temp_pdf">>)
    /\ \E weights_found \in BOOLEAN :
           IF weights_found
           THEN /\ pc' = "p2_loop"
                /\ todo' = names_of(temp_transform.files)
                /\ UNCHANGED <<raised, temp_transform, temp_pdf>>
           ELSE Propagate("readModel")
    /\ UNCHANGED <<input_folder, final_pdf, logged, vNorm,
                   folder, issued, clobbered, before, vSynth, vGeom>>

\* the file goes through the loop body of convert_images_to_pdf
is_raster(file) == endswith_any(lower(file), {ext_png, ext_jpg, ext_jpeg})

\* the name the loop body of convert_images_to_pdf saves `file` under
pdf_name(out_names, file) ==
    LET base_original == splitext(file)[1]
        modified_base == get_modified_basename(base_original)
    IN get_unique_filename(out_names, modified_base, ext_pdf)

\* one iteration of the loop of convert_images_to_pdf: an unreadable image is
\* printed and skipped; nothing catches an exception of save
P2Step ==
    /\ pc = "p2_loop"
    /\ \E file \in todo, saved \in BOOLEAN :
           LET f == file_named(temp_transform.files, file)
               unique_pdf_name == pdf_name(names_of(temp_pdf.files), file)
           IN IF ~is_raster(file)
              THEN /\ todo' = todo \ {file}
                   /\ UNCHANGED <<pc, raised, temp_transform, temp_pdf, logged>>
              ELSE IF ~f.ok
              THEN /\ todo' = todo \ {file}
                   /\ logged' = logged + 1
                   /\ UNCHANGED <<pc, raised, temp_transform, temp_pdf>>
              ELSE IF saved
              THEN /\ todo' = todo \ {file}
                   /\ temp_pdf' =
                         [temp_pdf EXCEPT !.files =
                             write_file(@, [name |-> unique_pdf_name, src |-> f.src, ok |-> TRUE])]
                   /\ UNCHANGED <<pc, raised, temp_transform, logged>>
              ELSE Propagate("save_pdf") /\ UNCHANGED logged
    /\ UNCHANGED <<input_folder, final_pdf, stage_log, vNorm,
                   folder, issued, clobbered, before, vSynth, vGeom>>

\* convert_images_to_pdf returns
P2Return ==
    /\ pc = "p2_loop"
    /\ todo = {}
    /\ pc' = "p3_start"
    /\ UNCHANGED <<todo, vPipe, vNorm, folder, issued, clobbered, before, vSynth, vGeom>>

\* correct_pdfs up to its loop
P3Start ==
    /\ pc = "p3_start"
    /\ pc' = "p3_loop"
    /\ stage_log' = Append(stage_log, <<"correct_pdfs", "temp_pdf", "pdf_corregidos">>)
    /\ todo' = names_of(temp_pdf.files)
    /\ UNCHANGED <<input_folder, temp_transform, temp_pdf, final_pdf, raised, logged, vNorm,
                   folder, issued, clobbered, before, vSynth, vGeom>>

\* one iteration of the loop of correct_pdfs: process_pdf writes the corrected
\* document under the same name, or raises (PdfReader, open, write)
P3Step ==
    /\ pc = "p3_loop"
    /\ \E file \in todo, processed \in BOOLEAN :
           LET f == file_named(temp_pdf.files, file)
           IN IF ~endswith(lower(file), ext_pdf)
              THEN /\ todo' = todo \ {file}
                   /\ UNCHANGED <<pc, raised, temp_transform, temp_pdf, final_pdf>>
              ELSE IF processed
              THEN /\ todo' = todo \ {file}
                   /\ final_pdf' =
                         [final_pdf EXCEPT !.files =
                             write_file(@, [name |-> file, src |-> f.src, ok |-> TRUE])]
                   /\ UNCHANGED <<pc, raised, temp_transform, temp_pdf>>
              ELSE Propagate("process_pdf") /\ UNCHANGED final_pdf
    /\ UNCHANGED <<input_folder, stage_log, logged, vNorm,
                   folder, issued, clobbered, before, vSynth, vGeom>>

\* correct_pdfs returns and main leaves both `with` blocks
MainReturn ==
    /\ pc = "p3_loop"
    /\ todo = {}
    /\ pc' = "done"
    /\ temp_pdf' = exit_with(temp_pdf, FALSE)
    /\ temp_transform' = exit_with(temp_transform, FALSE)
    /\ UNCHANGED <<todo, input_folder, final_pdf, stage_log, raised, logged, vNorm,
                   folder, issued, clobbered, before, vSynth, vGeom>>

NextPipeline ==
    \/ MainStart
    \/ P1Start \/ P1Step \/ P1Return
    \/ P2Start \/ P2Step \/ P2Return
    \/ P3Start \/ P3Step
    \/ MainReturn

SpecPipeline == InitPipeline /\ [][NextPipeline]_vars

\* C3: a per-file recoverable failure (corrupt or unreadable image, unsupported
\* extension, failure to encode the output) never aborts process_images nor
\* convert_images_to_pdf: what leaves main is a stage-fatal error only
C3_PerFileFailuresIsolated ==
    raised \in {"none", "listdir", "readModel", "process_pdf"}

StagesInOrder ==
    << <<"process_images", "producto_inicio", "temp_transform">>,
       <<"convert_images_to_pdf", "temp_transform", "temp_pdf">>,
       <<"correct_pdfs", "temp_pdf", "pdf_corregidos">> >>

\* C5: the stages start in the order normalization, synthesis, correction,
\* each on the previous stage's output directory; the temporary directories
\* exist while a stage runs; and when main has ended, by returning or by an
\* exception of any stage, neither temporary directory is left and the final
\* folder is
C5_OrderAndCleanup ==
    /\ Len(stage_log) <= 3
    /\ \A k \in 1..Len(stage_log) : stage_log[k] = StagesInOrder[k]
    /\ pc \in {"p1_loop"} => Len(stage_log) = 1
    /\ pc \in {"p2_loop"} => Len(stage_log) = 2
    /\ pc \in {"p3_loop", "done"} => Len(stage_log) = 3
    /\ pc \in {"p1_start", "p1_loop", "p2_start", "p2_loop", "p3_start", "p3_loop"} =>
           temp_transform.exists /\ temp_pdf.exists
    /\ pc \in {"done", "raised"} =>
           /\ ~temp_transform.exists
           /\ ~temp_pdf.exists
           /\ final_pdf.exists
    /\ (pc = "raised") = (raised # "none")

\* C5 witness: the third stage raised after the first two had written files
C5_Witness ==
    /\ pc = "raised"
    /\ raised = "process_pdf"
    /\ Len(stage_log) = 3
    /\ \E f \in final_pdf.files : f.src # <<>>

\* the text "(d COPIAS)" for a digit d
ParenCopias(d) == <<"(", d>> \o COPIAS \o <<")">>

\* C6: the name of every PDF the run wrote to the final folder holds no
\* marker, and holds "(d COPIAS)" for each marker with digit d in the name of
\* the input file it comes from
C6_FinalNamesRewritten ==
    final_pdf.exists =>
        \A f \in final_pdf.files :
            f.src # <<>> =>
                /\ ~HasMarker(f.name)
                /\ \A i \in 1..Len(f.src) :
                       match_at(f.src, i) => Contains(f.name, ParenCopias(f.src[i + 2]))

\* C6 witness: a marked input reached the final folder under a name that also
\* carries the allocator's collision suffix
C6_Witness ==
    /\ pc = "done"
    /\ \E f \in final_pdf.files :
           /\ HasMarker(f.src)
           /\ endswith(f.name, <<" ", "(", "1", ")">> \o ext_pdf)

\* .webp, .jpg, .jpeg, .png in any letter case
is_supported(name) == endswith_any(lower(name), {ext_webp, ext_jpg, ext_jpeg, ext_png})

\* C9: a run without any failure writes exactly one final PDF per supported
\* input file
C9_OnePdfPerInput ==
    (pc = "done" /\ logged = 0) =>
        Cardinality({f \in final_pdf.files : f.src # <<>>})
            = Cardinality({f \in input_folder.files : is_supported(f.name)})

(***************************************************************************)
(* SpecSynth: the loop of convert_images_to_pdf run twice over the same    *)
(* input folder and the same initial output folder, the two runs visiting  *)
(* the files in listing orders of their own; every save succeeds           *)
(***************************************************************************)
SynthUniverse ==
    { <<"a">> \o ext_png,
      <<"a">> \o ext_jpg,
      <<"a", " ", "(", "1", ")">> \o ext_png,
      <<"a">> \o Marker("1") \o ext_png,
      <<"a", " ", "(", "1">> \o COPIAS \o <<")">> \o ext_JPG,
      <<"n">> \o ext_txt }

SynthOutputs == { <<"a">> \o ext_pdf, <<"b">> \o ext_pdf }

InitSynth ==
    /\ pc = "synth_a"
    /\ folder \in Upto(SynthUniverse, MaxFiles)
    /\ arg \in SUBSET folder          \* the files cv2.imread cannot read
    /\ before \in SUBSET SynthOutputs
    /\ todo = folder
    /\ out_a = before
    /\ out_b = before
    /\ issued = <<>>
    /\ clobbered = FALSE
    /\ res = <<>>
    /\ IdlePipe /\ IdleGeom

\* the output folder after one iteration of the loop for `file`
synth_one(out_names, file, unreadable) ==
    IF is_raster(file) /\ file \notin unreadable
    THEN out_names \union {pdf_name(out_names, file)}
    ELSE out_names

\* one iteration of the first run
SynthStepA ==
    /\ pc = "synth_a"
    /\ \E file \in todo :
           /\ out_a' = synth_one(out_a, file, arg)
           /\ todo' = todo \ {file}
    /\ UNCHANGED <<pc, out_b, arg, res, folder, issued, clobbered, before, vPipe, vGeom>>

\* the first run is over, the second lists the same input folder
SynthSecondRun ==
    /\ pc = "synth_a"
    /\ todo = {}
    /\ pc' = "synth_b"
    /\ todo' = folder
    /\ UNCHANGED <<out_a, out_b, arg, res, folder, issued, clobbered, before, vPipe, vGeom>>

\* one iteration of the second run
SynthStepB ==
    /\ pc = "synth_b"
    /\ \E file \in todo :
           /\ out_b' = synth_one(out_b, file, arg)
           /\ todo' = todo \ {file}
    /\ UNCHANGED <<pc, out_a, arg, res, folder, issued, clobbered, before, vPipe, vGeom>>

\* the second run is over
SynthReturn ==
    /\ pc = "synth_b"
    /\ todo = {}
    /\ pc' = "synth_done"
    /\ UNCHANGED <<todo, out_a, out_b, arg, res, folder, issued, clobbered, before, vPipe, vGeom>>

NextSynth == SynthStepA \/ SynthSecondRun \/ SynthStepB \/ SynthReturn

SpecSynth == InitSynth /\ [][NextSynth]_vars

\* C4: two runs of the synthesis loop over the same input files and the same
\* initial output folder end with the same set of output PDF names, whatever
\* the orders in which they visit the files
C4_OrderIndependentNames ==
    pc = "synth_done" => out_a = out_b

(***************************************************************************)
(* SpecGeometry: process_pdf on a document, and again on its own output    *)
(*                                                                         *)
(* Lengths are exact, in units of 1/127 point: cm * 72 / 2.54 points is    *)
(* cm * 3600 / 127 points.  A length in centimetres is given in tenths.    *)
(***************************************************************************)
MaxPages == 2

MaxPasses == 2

\* cm_to_points for a length of `mm` tenths of a centimetre, in 1/127 point
cm_to_points(mm) == mm * 360

target_content_width == cm_to_points(63)

target_content_height == cm_to_points(88)

final_width == cm_to_points(67)

final_height == cm_to_points(92)

margin == cm_to_points(2)

\* a whole number of points in units of 1/127 point
Points(n) == n * 127

\* page sizes a reader can meet: a raster saved as a PDF page has a whole
\* number of points per side; 0 stands for a degenerate media box
PageSides == {0, Points(1), Points(100), Points(179), Points(400)}

PageSizes == [width : PageSides, height : PageSides]

\* the documents of at most n pages
RECURSIVE Documents(_)
Documents(n) ==
    IF n = 0 THEN {<<>>}
    ELSE LET shorter == Documents(n - 1)
         IN shorter \union {<<p>> \o d : p \in PageSizes, d \in {x \in shorter : Len(x) = n - 1}}

\* a variant that takes both factors from the page width
scale_of_width_only(page) ==
    [x |-> <<target_content_width, page.width>>,
     y |-> <<target_content_height, page.width>>]

\* scale_x, scale_y of process_pdf, each a fraction <<numerator, denominator>>
scale_of(page) ==
    [x |-> <<target_content_width, page.width>>,
     y |-> <<target_content_height, page.height>>]

\* Transformation().scale(sx, sy).translate(tx, ty) applied to a coordinate:
\* v * s + t, as a fraction over the denominator of s
transformed(v, s, t) == <<v * s[1] + t * s[2], s[2]>>

\* the page process_pdf adds for `page`: a blank page of the final size onto
\* which the transformed copy is merged; orig is the size of the page read,
\* box the image of its media box [0, width] x [0, height]
corrected_page(page) ==
    LET s == scale_of(page) IN
    [width |-> final_width,
     height |-> final_height,
     orig |-> page,
     scale |-> s,
     box |-> [x0 |-> transformed(0, s.x, margin),
              x1 |-> transformed(page.width, s.x, margin),
              y0 |-> transformed(0, s.y, margin),
              y1 |-> transformed(page.height, s.y, margin)]]

InitGeometry ==
    /\ pc = "pdf_loop"
    /\ reader \in Documents(MaxPages)
    /\ arg = Len(reader)
    /\ writer = <<>>
    /\ passes = 0
    /\ res = <<>>
    /\ IdleFolder /\ IdlePipe /\ IdleSynth

\* one iteration of `for page in reader.pages`; the division raises on a
\* media box without width or height
ProcessPage ==
    /\ pc = "pdf_loop"
    /\ reader # <<>>
    /\ LET page == Head(reader) IN
           IF page.width = 0 \/ page.height = 0
           THEN pc' = "pdf_raised" /\ UNCHANGED <<reader, writer>>
           ELSE /\ writer' = Append(writer, corrected_page(page))
                /\ reader' = Tail(reader)
                /\ pc' = pc
    /\ UNCHANGED <<arg, res, passes, vFolder, vPipe, vSynth>>

\* writer.write(f)
WriteDocument ==
    /\ pc = "pdf_loop"
    /\ reader = <<>>
    /\ pc' = "pdf_written"
    /\ passes' = passes + 1
    /\ UNCHANGED <<arg, res, reader, writer, vFolder, vPipe, vSynth>>

\* process_pdf is given the document it wrote
ProcessAgain ==
    /\ pc = "pdf_written"
    /\ passes < MaxPasses
    /\ pc' = "pdf_loop"
    /\ reader' = [k \in 1..Len(writer) |-> [width |-> writer[k].width, height |-> writer[k].height]]
    /\ writer' = <<>>
    /\ UNCHANGED <<arg, res, passes, vFolder, vPipe, vSynth>>

NextGeometry == ProcessPage \/ WriteDocument \/ ProcessAgain

SpecGeometry == InitGeometry /\ [][NextGeometry]_vars

\* the fraction f equals the whole length v
FracEq(f, v) == f[2] > 0 /\ f[1] = v * f[2]

=============================================================================
